---- MODULE Spec2Model ----
(***************************************************************************)
(* Model of the useFitText hook (src/index.ts).                            *)
(*                                                                         *)
(* The hook keeps a search state {calcKey, fontSize, fontSizePrev,         *)
(* fontSizeMax, fontSizeMin} in React state, an exposed `isCalculating`    *)
(* state, the refs `isCalculatingRef` and `depsPrevRef`, and a             *)
(* ResizeObserver whose callback schedules an animation frame.             *)
(*                                                                         *)
(* One render pass of the host component (the function body, then its      *)
(* layout effect, then its passive effects) is one atomic step: React runs *)
(* the layout effect synchronously after the commit and flushes the        *)
(* passive effects of a commit before the next render.  An update queued   *)
(* by the layout effect is rendered synchronously (nothing else runs in    *)
(* between); an update queued by an animation frame or by a passive effect *)
(* may be rendered at once or in a later task, so other callbacks may run  *)
(* before it.                                                              *)
(*                                                                         *)
(* Font sizes are percentages.  All configurations of the model are chosen *)
(* so that every halving of the search is exact (HalvingExact).            *)
(***************************************************************************)
EXTENDS FiniteSets, Integers, Sequences, TLC

\* ------------------------------------------------------------------ bounds
\* number of ResizeObserver notifications delivered in one behaviour
MaxResize == 3
\* number of re-evaluations started by the host (new props) in one behaviour
MaxHost == 2

\* ------------------------------------------------------- program constants
DefaultMaxFontSize == 100
DefaultMinFontSize == 20
DefaultResolution == 5
DefaultLogLevel == "warn"

LOG_LEVEL == [debug |-> 10, info |-> 20, warn |-> 30, error |-> 40, none |-> 100]

TLogLevel == {"debug", "info", "warn", "error", "none"}

\* ------------------------------------------------------------ environment
\* the default options
DefaultOptions ==
  [maxFontSize |-> DefaultMaxFontSize, minFontSize |-> DefaultMinFontSize,
   resolution |-> DefaultResolution]

\* valid configurations (minFontSize < maxFontSize, resolution > 0): the
\* defaults, a coarser resolution, and one whose range is within the
\* resolution
Configs ==
  { DefaultOptions,
    [DefaultOptions EXCEPT !.resolution = 10],
    [maxFontSize |-> 24, minFontSize |-> 16, resolution |-> 8] }

\* the container: content fits at every size <= threshold and overflows at
\* every size above it.  threshold < minFontSize: overflows at every size of
\* the range; threshold = maxFontSize: fits at every size.
Thresholds(c) ==
  { c.minFontSize - 1, c.minFontSize, c.maxFontSize }
  \cup (IF c = DefaultOptions THEN {62} ELSE {})

\* the log levels tried with a configuration and a container: all of them
\* where the search fails, the default elsewhere (only a failure logs)
LogLevels(c, t) ==
  IF c = DefaultOptions /\ t < c.minFontSize THEN TLogLevel
  ELSE {DefaultLogLevel}

\* contents of the dependency list (what dequal compares)
DepVals == {0, 1}
\* depsPrevRef.current before the dependency effect assigns it
Undefined == -1

VARIABLES
  cfg,               \* options of the hook: maxFontSize, minFontSize, resolution
  logLevelOption,    \* option logLevel
  threshold,         \* the container (see Thresholds)
  state,             \* React state `state` (latest value set)
  isCalculating,     \* React state `isCalculating` (latest value set)
  isCalculatingRef,  \* isCalculatingRef.current
  depsPrevRef,       \* depsPrevRef.current
  deps,              \* content of the dependency list of the last render
  rendered,          \* the search state read by the last render
  depsPrevNew,       \* depsPrevRef.current was assigned since the last render read it
  renderPending,     \* "none", "sync" (queued by the layout effect), "async"
  rafPending,        \* ids of the requested animation frames not yet run
  animationFrameId,  \* `animationFrameId` of the first render's closure
  mounted,           \* the component is mounted and `ro` observes the element
  nResize,           \* ResizeObserver notifications so far
  nHost,             \* host re-evaluations so far
  obs                \* observer: what the callbacks and the log have seen

vars == << cfg, logLevelOption, threshold, state, isCalculating,
           isCalculatingRef, depsPrevRef, deps, rendered, depsPrevNew,
           renderPending, rafPending, animationFrameId, mounted, nResize,
           nHost, obs >>

envVars == << cfg, logLevelOption, threshold >>

\* ---------------------------------------------------------------- helpers
Abs(x) == IF x < 0 THEN -x ELSE x

Min(a, b) == IF a < b THEN a ELSE b

Max(a, b) == IF a > b THEN a ELSE b

\* `delta / 2`: exact when delta is even (see HalvingExact)
Half(delta) == delta \div 2

\* the record returned by initState()
initState ==
  [calcKey |-> 0,
   fontSize |-> cfg.maxFontSize,
   fontSizePrev |-> cfg.minFontSize,
   fontSizeMax |-> cfg.maxFontSize,
   fontSizeMin |-> cfg.minFontSize]

\* { ...initState(), calcKey: calcKey + 1 }
ResetState(calcKey) == [initState EXCEPT !.calcKey = calcKey + 1]

\* the `calcKey` the ResizeObserver callback closes over: `ro` is created
\* once, by the first render, whose calcKey is that of initState()
roCalcKey == initState.calcKey

\* const logLevel = LOG_LEVEL[logLevelOption]
logLevel == LOG_LEVEL[logLevelOption]

\* the failure message passes the gate `logLevel <= LOG_LEVEL.info`
LogEmitted == logLevel <= LOG_LEVEL.info

\* scrollHeight > offsetHeight || scrollWidth > offsetWidth, at this size
isOverflow(fontSize) == fontSize > threshold

isWithinResolution(s) == Abs(s.fontSize - s.fontSizePrev) <= cfg.resolution

isFailed(s) == isOverflow(s.fontSize) /\ s.fontSize = s.fontSizePrev

isAsc(s) == s.fontSize > s.fontSizePrev

\* LayoutBranch without its isFailed test: a failed search takes the success
\* branch
LayoutBranchNoFailure(s) ==
  IF s.calcKey = 0 THEN "idle"
  ELSE IF isWithinResolution(s)
       THEN IF isOverflow(s.fontSize) /\ ~isFailed(s) THEN "correct"
            ELSE "finish"
       ELSE "search"

\* which branch the layout effect takes on the rendered state s
LayoutBranch(s) ==
  IF s.calcKey = 0 THEN "idle"
  ELSE IF isWithinResolution(s)
       THEN IF isFailed(s) THEN "failed"
            ELSE IF isOverflow(s.fontSize) THEN "correct"
            ELSE "finish"
       ELSE "search"

\* Corrective stepping back to fontSizePrev whatever the direction
CorrectiveToPrevious(s) ==
  [calcKey |-> s.calcKey,
   fontSize |-> s.fontSizePrev,
   fontSizeMax |-> s.fontSizeMax,
   fontSizeMin |-> s.fontSizeMin,
   fontSizePrev |-> s.fontSizePrev]

\* the state set when the size is within resolution and still overflows
Corrective(s) ==
  [calcKey |-> s.calcKey,
   fontSize |-> IF isAsc(s) THEN s.fontSizePrev ELSE s.fontSizeMin,
   fontSizeMax |-> s.fontSizeMax,
   fontSizeMin |-> s.fontSizeMin,
   fontSizePrev |-> s.fontSizePrev]

\* Delta descending towards the configured minimum in place of the
\* bracket's lower end
DeltaToConfiguredMin(s) ==
  IF isOverflow(s.fontSize)
  THEN IF isAsc(s) THEN s.fontSizePrev - s.fontSize
                   ELSE cfg.minFontSize - s.fontSize
  ELSE IF isAsc(s) THEN s.fontSizeMax - s.fontSize
                   ELSE s.fontSizePrev - s.fontSize

\* `delta` of the binary search
Delta(s) ==
  IF isOverflow(s.fontSize)
  THEN IF isAsc(s) THEN s.fontSizePrev - s.fontSize
                   ELSE s.fontSizeMin - s.fontSize
  ELSE IF isAsc(s) THEN s.fontSizeMax - s.fontSize
                   ELSE s.fontSizePrev - s.fontSize

\* BinarySearch forgetting the upper end of the bracket when the content
\* fits
BinarySearchWidening(s) ==
  [calcKey |-> s.calcKey,
   fontSize |-> s.fontSize + Half(Delta(s)),
   fontSizeMax |-> IF isOverflow(s.fontSize)
                   THEN Min(s.fontSizeMax, s.fontSize) ELSE cfg.maxFontSize,
   fontSizeMin |-> IF isOverflow(s.fontSize)
                   THEN s.fontSizeMin ELSE Max(s.fontSizeMin, s.fontSize),
   fontSizePrev |-> s.fontSize]

\* the state set by a binary search step
BinarySearch(s) ==
  [calcKey |-> s.calcKey,
   fontSize |-> s.fontSize + Half(Delta(s)),
   fontSizeMax |-> IF isOverflow(s.fontSize)
                   THEN Min(s.fontSizeMax, s.fontSize) ELSE s.fontSizeMax,
   fontSizeMin |-> IF isOverflow(s.fontSize)
                   THEN s.fontSizeMin ELSE Max(s.fontSizeMin, s.fontSize),
   fontSizePrev |-> s.fontSize]

\* the state after the layout effect took branch b on s
LayoutState(s, b) ==
  IF b = "correct" THEN Corrective(s)
  ELSE IF b = "search" THEN BinarySearch(s)
  ELSE s

\* the layout effect's dependency array differs from the last render's
LayoutDepsChanged(s, newOnFinish) ==
  \/ s.calcKey # rendered.calcKey
  \/ s.fontSize # rendered.fontSize
  \/ s.fontSizeMax # rendered.fontSizeMax
  \/ s.fontSizeMin # rendered.fontSizeMin
  \/ s.fontSizePrev # rendered.fontSizePrev
  \/ newOnFinish

\* dequal(a, b): deep equality of two dependency lists (undefined equals
\* only undefined)
dequal(a, b) == a = b

\* Every render passes a new array (`[title, description]`).  Its elements
\* are Object.is-equal to the last render's when the content is the same and
\* they are primitives or the same objects ("shallow"), and are not when they
\* are newly allocated ("deep") or the content changed.
ElementsChanged(alloc, val) == val # deps \/ alloc = "deep"

\* the dependency effect's dependency array [calcKey, initState, onStart,
\* depsPrev, ...deps] differs from the last render's
DepEffectDepsChanged(s, newOnStart, alloc, val) ==
  \/ s.calcKey # rendered.calcKey
  \/ newOnStart
  \/ depsPrevNew
  \/ ElementsChanged(alloc, val)

\* what the dependency effect does, given isCalculatingRef.current (ref)
DepBranch(s, ref, newDeps) ==
  IF s.calcKey = 0 \/ ref THEN "return"
  ELSE IF ~dequal(depsPrevRef, newDeps) THEN "reset"
  ELSE "equal"

\* ----------------------------------------------------------------- observer
\* obs records what the host can observe of the current search, i.e. since
\* the last onStart call: startedBy (the trigger), open (neither the success nor the failure branch was taken
\* yet), reentered (onStart was called while the search before was open),
\* nSteps (measurement steps of the open search), nAdj (changes of fontSize
\* by measurement steps), nFinish and finishArg (onFinish calls and their
\* argument), nFail and nLog (failure branches taken, messages logged);
\* batchStarts (searches started by the animation frames requested while
\* another frame was pending, i.e. before one rendering pass) and last
\* (what the last step did: "resize" or "deps" when it called onStart,
\* "dropped" when it dropped a frame, "step" when it measured).
\* the observer at the start of a search: counters restart with onStart
ObsStart(o, by) ==
  [startedBy |-> by, open |-> TRUE,
   reentered |-> o.open, nSteps |-> 0, nAdj |-> 0, nFinish |-> 0,
   finishArg |-> -1, nFail |-> 0, nLog |-> 0,
   batchStarts |-> IF by = "resize" THEN o.batchStarts + 1 ELSE o.batchStarts,
   last |-> by]

\* the observer after the layout effect took branch b on s
ObsLayout(o, s, b) ==
  IF b \in {"none", "idle"} THEN [o EXCEPT !.last = "none"]
  ELSE [o EXCEPT
          !.last = "step",
          !.nSteps = IF o.open THEN @ + 1 ELSE @,
          !.nAdj = IF LayoutState(s, b).fontSize # s.fontSize THEN @ + 1 ELSE @,
          !.open = IF b \in {"failed", "finish"} THEN FALSE ELSE @,
          !.nFinish = IF b = "finish" THEN @ + 1 ELSE @,
          !.finishArg = IF b = "finish" THEN s.fontSize ELSE @,
          !.nFail = IF b = "failed" THEN @ + 1 ELSE @,
          !.nLog = IF b = "failed" /\ LogEmitted THEN @ + 1 ELSE @]

\* -------------------------------------------------------------------- Init
\* the state after the first render and its effects: calcKey is 0, so the
\* layout effect and the dependency effect returned at once, and `ro`
\* observes the element
Init ==
  /\ cfg \in Configs
  /\ threshold \in Thresholds(cfg)
  /\ logLevelOption \in LogLevels(cfg, threshold)
  /\ state = initState
  /\ isCalculating = FALSE
  /\ isCalculatingRef = FALSE
  /\ depsPrevRef = Undefined
  /\ deps = 0
  /\ rendered = initState
  /\ depsPrevNew = FALSE
  /\ renderPending = "none"
  /\ rafPending = {}
  /\ animationFrameId = 0
  /\ mounted = TRUE
  /\ nResize = 0
  /\ nHost = 0
  /\ obs = [startedBy |-> "none", open |-> FALSE,
            reentered |-> FALSE, nSteps |-> 0, nAdj |-> 0, nFinish |-> 0,
            finishArg |-> -1, nFail |-> 0, nLog |-> 0, batchStarts |-> 0,
            last |-> "none"]

\* ----------------------------------------------------------------- actions
\* The ResizeObserver callback: requests an animation frame and keeps its
\* id; a frame requested earlier is not cancelled.
ResizeNotify ==
  /\ mounted
  /\ renderPending # "sync"
  /\ nResize < MaxResize
  /\ nResize' = nResize + 1
  /\ animationFrameId' = nResize + 1
  /\ rafPending' = rafPending \cup {nResize + 1}
  /\ obs' = [obs EXCEPT !.last = "none",
                         !.batchStarts = IF rafPending = {} THEN 0 ELSE @]
  /\ UNCHANGED << envVars, state, isCalculating, isCalculatingRef,
                  depsPrevRef, deps, rendered, depsPrevNew, renderPending,
                  mounted, nHost >>

\* The animation frame callback of the ResizeObserver; the browser runs the
\* requested frames in the order of their requests.  After unmount React
\* ignores the two state updates.
AnimationFrame(id) ==
  /\ id \in rafPending
  /\ \A other \in rafPending : id <= other
  /\ renderPending # "sync"
  /\ rafPending' = rafPending \ {id}
  /\ IF isCalculatingRef
     THEN /\ obs' = [obs EXCEPT !.last = "dropped"]
          /\ UNCHANGED << state, isCalculating, isCalculatingRef,
                          renderPending >>
     ELSE /\ obs' = ObsStart(obs, "resize")
          /\ isCalculatingRef' = TRUE
          /\ IF mounted
             THEN /\ isCalculating' = TRUE
                  /\ state' = ResetState(roCalcKey)
                  /\ renderPending' = "async"
             ELSE UNCHANGED << state, isCalculating, renderPending >>
  /\ UNCHANGED << envVars, depsPrevRef, deps, rendered, depsPrevNew,
                  animationFrameId, mounted, nResize, nHost >>

\* One render of the host component with a dependency list of content val,
\* followed by its layout effect and its dependency effect.
RenderPass(newOnFinish, newOnStart, alloc, val) ==
  LET s == state
      b == IF LayoutDepsChanged(s, newOnFinish) THEN LayoutBranch(s)
           ELSE "none"
      done == b \in {"failed", "finish"}
      ref1 == IF done THEN FALSE ELSE isCalculatingRef
      calc1 == IF done THEN FALSE ELSE isCalculating
      obs1 == ObsLayout(obs, s, b)
      setL == b \in {"correct", "search"} \/ calc1 # isCalculating
      d == IF DepEffectDepsChanged(s, newOnStart, alloc, val)
           THEN DepBranch(s, ref1, val) ELSE "none"
  IN /\ rendered' = s
     /\ depsPrevNew' = (d \in {"reset", "equal"})
     /\ deps' = val
     /\ isCalculatingRef' = ref1
     /\ isCalculating' = IF d = "reset" THEN TRUE ELSE calc1
     /\ state' = IF d = "reset" THEN ResetState(s.calcKey)
                 ELSE LayoutState(s, b)
     /\ depsPrevRef' = IF d \in {"reset", "equal"} THEN val
                       ELSE depsPrevRef
     /\ obs' = IF d = "reset" THEN ObsStart(obs1, "deps") ELSE obs1
     /\ renderPending' = IF setL THEN "sync"
                         ELSE IF d = "reset" THEN "async"
                         ELSE "none"
     /\ UNCHANGED << envVars, rafPending, animationFrameId, mounted,
                     nResize >>

\* React renders a queued state update; the host passes the same content.
Render ==
  /\ mounted
  /\ renderPending # "none"
  /\ \E newOnFinish \in BOOLEAN, newOnStart \in BOOLEAN,
        alloc \in {"shallow", "deep"} :
       RenderPass(newOnFinish, newOnStart, alloc, deps)
  /\ UNCHANGED nHost

\* The host re-evaluates the component, with any dependency list.
HostRender ==
  /\ mounted
  /\ renderPending # "sync"
  /\ nHost < MaxHost
  /\ nHost' = nHost + 1
  /\ \E newOnFinish \in BOOLEAN, newOnStart \in BOOLEAN,
        alloc \in {"shallow", "deep"}, val \in DepVals :
       RenderPass(newOnFinish, newOnStart, alloc, val)

\* The cleanup of the observe effect: cancels the frame whose id the first
\* render's `animationFrameId` holds, and disconnects `ro`.
Unmount ==
  /\ mounted
  /\ renderPending # "sync"
  /\ mounted' = FALSE
  /\ rafPending' = IF animationFrameId # 0
                   THEN rafPending \ {animationFrameId} ELSE rafPending
  /\ renderPending' = "none"
  /\ obs' = [obs EXCEPT !.last = "none"]
  /\ UNCHANGED << envVars, state, isCalculating, isCalculatingRef,
                  depsPrevRef, deps, rendered, depsPrevNew,
                  animationFrameId, nResize, nHost >>

Frame == \E id \in rafPending : AnimationFrame(id)

\* the mounted component
Next == ResizeNotify \/ Frame \/ Render \/ HostRender

Spec == Init /\ [][Next]_vars

\* the component with its teardown
NextTeardown == ResizeNotify \/ Frame \/ Render \/ HostRender \/ Unmount

SpecTeardown == Init /\ [][NextTeardown]_vars

\* React renders every queued update and the browser runs every requested
\* animation frame
FairSpec == Spec /\ WF_vars(Render) /\ WF_vars(Frame)

\* The layout of the element changes (its content, its container or a font
\* that loads), so what the next measurement observes is independent of what
\* the measurements before it observed: with the threshold below
\* minFontSize every size overflows, with the threshold at maxFontSize none.
\* Only a layout change before a pending render is observable.
Relayout ==
  /\ mounted
  /\ renderPending # "none"
  /\ threshold' \in {cfg.minFontSize - 1, cfg.maxFontSize} \ {threshold}
  /\ obs' = [obs EXCEPT !.last = "none"]
  /\ UNCHANGED << cfg, logLevelOption, state, isCalculating,
                  isCalculatingRef, depsPrevRef, deps, rendered, depsPrevNew,
                  renderPending, rafPending, animationFrameId, mounted,
                  nResize, nHost >>

\* the mounted component with arbitrary overflow observations; the host
\* passes the same dependency list in every render
NextArbitrary == ResizeNotify \/ Frame \/ Render \/ Relayout

\* the state after mount, with the default logLevel and a layout in which
\* the content fits
InitArbitrary ==
  /\ Init
  /\ logLevelOption = DefaultLogLevel
  /\ threshold = cfg.maxFontSize

SpecArbitrary == InitArbitrary /\ [][NextArbitrary]_vars

\* every delta the binary search halves is even, so Half is exact
HalvingExact ==
  (state.calcKey # 0 /\ LayoutBranch(state) = "search") => Delta(state) % 2 = 0

TypeOK ==
  /\ cfg \in Configs
  /\ isCalculating \in BOOLEAN
  /\ isCalculatingRef \in BOOLEAN
  /\ renderPending \in {"none", "sync", "async"}
  /\ rafPending \subseteq 1 .. MaxResize
  /\ state.fontSizeMin <= state.fontSizeMax

\* ------------------------------------------------------------------ claims
\* the content fits at the minimum and overflows at the maximum
ThresholdInRange ==
  cfg.minFontSize <= threshold /\ threshold < cfg.maxFontSize

\* a search has started and has reached its success or its failure branch
Terminated == obs.startedBy # "none" /\ ~obs.open

\* C1: with minFontSize <= T < maxFontSize, a search that has terminated
\* reports a fontSize f with T - resolution <= f <= T, and onFinish has been
\* invoked once, with exactly that f.
C1_FitResult ==
  (ThresholdInRange /\ Terminated) =>
    /\ threshold - cfg.resolution <= state.fontSize
    /\ state.fontSize <= threshold
    /\ obs.nFinish = 1
    /\ obs.finishArg = state.fontSize

\* the content overflows at every size of [minFontSize, maxFontSize]
AlwaysOverflows == threshold < cfg.minFontSize

\* the content does not overflow at maxFontSize
FitsAtMax == threshold >= cfg.maxFontSize

\* a search is in progress: the exposed calculating flag is set
Searching == mounted /\ isCalculating

\* the least k with resolution * 2^k >= range
RECURSIVE CeilLog2(_, _)
CeilLog2(range, resolution) ==
  IF range <= resolution THEN 0 ELSE 1 + CeilLog2(range, 2 * resolution)

\* C2: every search that starts terminates (the calculating flag returns to
\* false) within ceil(log2((maxFontSize - minFontSize) / resolution)) + 4
\* measurement steps.
C2_Termination ==
  /\ [](obs.nSteps <=
          CeilLog2(cfg.maxFontSize - cfg.minFontSize, cfg.resolution) + 4)
  /\ (Searching ~> (~isCalculating \/ ~mounted))

\* C3: with the default options one search changes the font size at most 5
\* times between its start and its termination.
C3_AtMostFiveAdjustments ==
  cfg = DefaultOptions => obs.nAdj <= 5

\* C4: if the content does not overflow at maxFontSize, a search succeeds at
\* its first measurement step, reports maxFontSize and has invoked
\* onFinish(maxFontSize) exactly once; and every search that started has
\* either a measurement step pending or has terminated.
C4_FitsAtMaximum ==
  FitsAtMax =>
    /\ Terminated =>
         /\ obs.nSteps = 1
         /\ state.fontSize = cfg.maxFontSize
         /\ obs.nFinish = 1
         /\ obs.finishArg = cfg.maxFontSize
    /\ (mounted /\ obs.open) => renderPending # "none"

\* C5: if the content overflows at every size, onFinish is never invoked, a
\* search that has terminated took the failure branch and left the
\* calculating flag false, and every search that starts terminates.
C5_FailureOutcome ==
  /\ [](AlwaysOverflows =>
          /\ obs.nFinish = 0
          /\ Terminated => (~isCalculating /\ obs.nFail >= 1))
  /\ ((AlwaysOverflows /\ Searching) ~> ~isCalculating)

\* a search has ended in the failure branch, at the minimum font size, with
\* the calculating flag false
C5_Witness ==
  /\ AlwaysOverflows
  /\ Terminated
  /\ obs.nFail = 1
  /\ obs.nFinish = 0
  /\ ~isCalculating
  /\ state.fontSize = cfg.minFontSize

\* C6: for a search that ended in failure the message was emitted exactly
\* once when logLevel is debug, info or the default warn.
C6_FailureLogOnce ==
  (Terminated /\ obs.nFail >= 1 /\ logLevelOption \in {"debug", "info", "warn"})
    => obs.nLog = 1

\* an animation frame of the ResizeObserver ran in this step
FrameRan == rafPending' # rafPending /\ rafPending' \subseteq rafPending

\* C7: a resize recalculation that fires while calculating is true is
\* dropped (no onStart call, SearchState not reset), so a resize never calls
\* onStart while the search before is still open.
C7_NoReentrantRestart ==
  /\ [][(Searching /\ FrameRan) =>
          (obs'.last = "dropped" /\ state' = state)]_vars
  /\ [](obs.startedBy = "resize" => ~obs.reentered)

\* C8: the resize notifications delivered before one rendering pass start
\* exactly one search.
C8_ResizeCoalescing ==
  /\ obs.batchStarts <= 1
  /\ (nResize > 0 /\ rafPending = {}) => obs.startedBy # "none"

\* the host re-evaluates the component in this step, with generation > 0 and
\* no search in progress
HostRenderWhenIdle ==
  /\ nHost' = nHost + 1
  /\ state.calcKey > 0
  /\ ~isCalculating
  /\ ~isCalculatingRef

\* C9: a host re-evaluation with a structurally equal dependency list, when
\* generation > 0 and no search is in progress, calls no onStart and does not
\* reset the SearchState.
C9_EqualDepsNoRestart ==
  [][(HostRenderWhenIdle /\ deps' = deps) =>
       (obs'.last # "deps" /\ state' = state /\ ~isCalculating')]_vars

\* C10: a host re-evaluation whose dependency list differs by value, when
\* generation > 0 and no search is in progress, starts one search (onStart,
\* the reset SearchState); the renders that follow with the same list start
\* no further search.
C10_ChangedDepsRestartOnce ==
  /\ [][(HostRenderWhenIdle /\ deps' # deps) =>
          /\ obs'.last = "deps"
          /\ isCalculating'
          /\ state' = [calcKey |-> state.calcKey + 1,
                       fontSize |-> cfg.maxFontSize,
                       fontSizePrev |-> cfg.minFontSize,
                       fontSizeMax |-> cfg.maxFontSize,
                       fontSizeMin |-> cfg.minFontSize]]_vars
  /\ [][(obs.startedBy = "deps" /\ deps' = deps) => obs'.last # "deps"]_vars

\* C11: a search that converged has invoked onFinish exactly once, with the
\* final size, and no host re-evaluation (with a new onFinish callback or
\* not) adds an onFinish call before a trigger starts a new search.
C11_OnFinishOncePerConvergence ==
  /\ obs.nFinish <= 1
  /\ (Terminated /\ obs.nFail = 0) =>
       (obs.nFinish = 1 /\ obs.finishArg = state.fontSize)

\* C12: with arbitrary overflow observations, every reachable search state
\* has fontSizeMin <= fontSize <= fontSizeMax.
C12_BracketInvariant ==
  /\ state.fontSizeMin <= state.fontSize
  /\ state.fontSize <= state.fontSizeMax

\* observations no fixed threshold produces: the content fitted at a size
\* above the minimum (fontSizeMin was raised to it), overflowed at smaller
\* sizes, and the search failed at the raised fontSizeMin
C12_Witness ==
  /\ obs.last = "step"
  /\ obs.nFail = 1
  /\ cfg.minFontSize < state.fontSizeMin
  /\ state.fontSize = state.fontSizeMin
  /\ state.fontSizeMax < cfg.maxFontSize

\* C13: with arbitrary overflow observations, a measurement step (a step of
\* the layout effect that no reset follows in the same pass) never increases
\* fontSizeMax and never decreases fontSizeMin.
C13_MonotonicNarrowing ==
  [][obs'.last = "step" =>
       /\ state'.fontSizeMax <= state.fontSizeMax
       /\ state'.fontSizeMin >= state.fontSizeMin]_vars

\* the last measurement step lowered fontSizeMax of a bracket whose
\* fontSizeMin had been raised
C13_Witness ==
  /\ obs.last = "step"
  /\ state.calcKey = rendered.calcKey
  /\ state.fontSizeMax < rendered.fontSizeMax
  /\ rendered.fontSizeMin > cfg.minFontSize

\* C14: every reset, by the resize trigger or by the dependency trigger,
\* sets calcKey to the calcKey of the state it replaces plus 1, and calcKey
\* never decreases.
C14_GenerationCounter ==
  [][/\ state'.calcKey >= state.calcKey
     /\ obs'.last \in {"resize", "deps"} =>
          state'.calcKey = state.calcKey + 1]_vars

\* C15: a reset by the dependency trigger calls onStart, sets both
\* isCalculatingRef.current and the exposed isCalculating, and installs the
\* reset state with calcKey + 1, as a reset by the resize trigger does.
C15_TriggerEquivalence ==
  [][obs'.last = "deps" =>
       /\ isCalculatingRef'
       /\ isCalculating'
       /\ state' = ResetState(state.calcKey)]_vars

\* a render pass in which the dependency effect certainly runs: calcKey or
\* the content of the dependency list differs from the render before
DepEffectEvaluated ==
  /\ Render \/ HostRender
  /\ state.calcKey # rendered.calcKey \/ deps' # deps

\* C16: every evaluation of the dependency effect leaves
\* depsPrevRef.current equal to the dependency list of that render, also
\* when calcKey is 0 or a search is in progress.
C16_SnapshotUpdate ==
  [][DepEffectEvaluated => depsPrevRef' = deps']_vars

\* C17: after the unmount no animation frame callback of the ResizeObserver
\* runs: no onStart call and no change of the search state or of the
\* calculating flags.
C17_Teardown ==
  [][~mounted =>
       /\ ~FrameRan
       /\ obs'.last # "resize"
       /\ state' = state
       /\ isCalculating' = isCalculating
       /\ isCalculatingRef' = isCalculatingRef]_vars

\* C18: at most one animation frame of the ResizeObserver is pending in
\* every reachable state: a notification that arrives while a frame is
\* pending replaces that frame.
C18_SinglePendingRecalculation == Cardinality(rafPending) <= 1

\* C19: with a fixed overflow threshold the failure branch is taken only in
\* a state with fontSize = fontSizePrev = minFontSize, where the content
\* overflows at minFontSize.
C19_FailureOnlyAtMinimum ==
  obs.nFail >= 1 =>
    /\ state.fontSize = cfg.minFontSize
    /\ state.fontSizePrev = cfg.minFontSize
    /\ isOverflow(cfg.minFontSize)

\* the layout effect has just taken the failure branch, after the search
\* descended from maxFontSize by more than one measurement step
C19_Witness ==
  /\ obs.last = "step"
  /\ obs.nFail = 1
  /\ obs.nSteps > 2
  /\ rendered.fontSize = cfg.minFontSize
  /\ rendered.fontSizePrev = cfg.minFontSize

\* C20: while a search is in progress the last reset or step changed one of
\* calcKey, fontSize, fontSizePrev, fontSizeMin, fontSizeMax, so the layout
\* effect runs again: the hook never rests with isCalculating true, no
\* render pending and every later trigger dropped.
C20_NoStalledSearch ==
  /\ (mounted /\ isCalculating /\ obs.open) => state # rendered
  /\ (mounted /\ isCalculating /\ isCalculatingRef) => renderPending # "none"

====
